---- MODULE Spec2Model ----
(***************************************************************************)
(* Duplicate-file finder: the in-memory worker of remove-duplicates.py     *)
(* (find_duplicates.worker) and the sqlite-staged worker of                *)
(* duplicate_finder.py (_run_find_duplicates), run against a static file   *)
(* tree while the caller may set the stop event at any moment.             *)
(*                                                                         *)
(* A path is a sequence of path pieces.  A piece is a positive number (a   *)
(* stretch of characters without a comma, e.g. "/r/x") or Comma (the       *)
(* character ","), so <<1, Comma, 2>> is the file "/r/x,/r/y": the file y  *)
(* of the directory "/r/x,/r".  File contents are sequences of bytes.      *)
(***************************************************************************)
EXTENDS Integers, Sequences, FiniteSets, TLC

\* ---- bounds of the model ------------------------------------------------
MaxFiles == 4
MaxByte == 2
MaxFaults == 1
MaxUnreadable == 1
MaxRuns == 2
MaxGuiFiles == 2
MaxSwitches == 2

\* ---- program constants --------------------------------------------------
Comma == 0
chunk_size == 8192
CommitInterval == 100

VARIABLES
    impl,            \* "memory": remove-duplicates.py, "staged": duplicate_finder.py
    tree,            \* the directories os.walk visits, in visiting order
    stop,            \* stop_event.is_set()
    pc,              \* position of the worker thread
    dirIdx,          \* next directory of the os.walk generator
    all_files,       \* all_files
    total_files,     \* total_files (of the function that is running)
    scanned,         \* scanned (of the function that is running)
    fileIdx,         \* position of the running "for ... in" loop over files
    files_by_size,   \* memory: files_by_size, an insertion-ordered dict
    db,              \* staged: the rows of table files, in rowid order
    committed,       \* staged: the rows as of the last conn.commit()
    groups,          \* memory: potential_dupes items; staged: size_groups
    group_index,     \* number of groups the group loop has taken
    files,           \* the member paths of the group being hashed
    hashes,          \* memory: hashes, digest -> first path of the group
    duplicates,      \* memory: duplicates, digest -> paths
    out,             \* the lines passed to output_callback, in order
    progress,        \* the pairs passed to update_progress, in order
    doneCalls,       \* the calls of done_callback, in order
    hash_calls,      \* the paths passed to hash_file, in order
    btn_cancel,      \* the state of the "Cancel Scan" button
    stopped_at,      \* where the worker was when its stop event was set
    thread,          \* the number of the worker thread the variables above describe
    stop_event,      \* gui: self.stop_event, the number of the thread it was made for
    others,          \* the other worker threads that are still running
    switches         \* the number of times the scheduler changed the thread

vars == <<impl, tree, stop, pc, dirIdx, all_files, total_files, scanned,
          fileIdx, files_by_size, db, committed, groups, group_index, files,
          hashes, duplicates, out, progress, doneCalls, hash_calls, btn_cancel,
          stopped_at, thread, stop_event, others, switches>>

\* ---- sequences and dicts -------------------------------------------------
Range(s) == {s[i] : i \in 1..Len(s)}

RECURSIVE Flatten(_)
Flatten(ss) ==
    IF ss = <<>> THEN <<>> ELSE Head(ss) \o Flatten(Tail(ss))

\* a Python dict: the sequence of its items [key, val] in insertion order
DictHas(d, k) == \E i \in 1..Len(d) : d[i].key = k

DictGet(d, k) == d[CHOOSE i \in 1..Len(d) : d[i].key = k].val

\* d[k] = v
DictSet(d, k, v) ==
    IF DictHas(d, k)
    THEN [i \in 1..Len(d) |-> IF d[i].key = k THEN [key |-> k, val |-> v] ELSE d[i]]
    ELSE Append(d, [key |-> k, val |-> v])

\* d.setdefault(k, default).append(v)
SetDefaultAppend(d, k, default, v) ==
    IF DictHas(d, k)
    THEN DictSet(d, k, Append(DictGet(d, k), v))
    ELSE Append(d, [key |-> k, val |-> Append(default, v)])

\* ---- the file tree -------------------------------------------------------
Contents == {<<>>} \cup {<<b>> : b \in 1..MaxByte}

Faults == {"none", "size", "hash"}

\* the path of the k-th file; the file numbered comma has a comma in its
\* path, and its two comma-free stretches are the paths of the first two files
PathOf(k, comma) ==
    IF k = comma THEN <<1, Comma, 2>> ELSE <<k>>

FileRec(k, c, f, comma) ==
    [path |-> PathOf(k, comma), content |-> c[k], fault |-> f[k]]

\* the root directory holds the first file, then come the unreadable
\* directories, then a subdirectory with the other files; the last file may
\* be the one with the comma
MakeTree(n, c, f, comma, unreadable) ==
    <<[readable |-> TRUE,
       files |-> IF n >= 1 THEN <<FileRec(1, c, f, comma)>> ELSE <<>>]>>
    \o [i \in 1..unreadable |-> [readable |-> FALSE, files |-> <<>>]]
    \o (IF n >= 2
        THEN <<[readable |-> TRUE,
                files |-> [k \in 1..(n - 1) |-> FileRec(k + 1, c, f, comma)]]>>
        ELSE <<>>)

Trees ==
    UNION {
        {MakeTree(n, c, f, comma, u) :
            c \in [1..n -> Contents],
            f \in {g \in [1..n -> Faults] :
                     Cardinality({k \in 1..n : g[k] # "none"}) <= MaxFaults},
            comma \in {0, n},
            u \in 0..MaxUnreadable}
        : n \in 0..MaxFiles}

TreeFiles(t) == Flatten([i \in 1..Len(t) |-> t[i].files])

\* the file a path names
FileAt(p) == CHOOSE r \in Range(TreeFiles(tree)) : r.path = p

\* ---- the file system calls ----------------------------------------------
\* os.path.getsize: <<size>>, or <<>> when it raises
getsize(p) ==
    IF FileAt(p).fault = "size" THEN <<>> ELSE <<Len(FileAt(p).content)>>

\* hashlib.sha256: the state is a number, update() absorbs the bytes one
\* after the other; different byte strings give different digests
RECURSIVE update(_, _)
update(h, chunk) ==
    IF chunk = <<>> THEN h
    ELSE update(h * (MaxByte + 1) + Head(chunk), Tail(chunk))

RECURSIVE ReadChunks(_, _)
ReadChunks(h, rest) ==
    IF rest = <<>> THEN h
    ELSE IF Len(rest) <= chunk_size THEN ReadChunks(update(h, rest), <<>>)
    ELSE ReadChunks(update(h, SubSeq(rest, 1, chunk_size)),
                    SubSeq(rest, chunk_size + 1, Len(rest)))

\* hash_file: <<digest>>, or <<>> when it raises
hash_file(p) ==
    IF FileAt(p).fault = "hash" THEN <<>>
    ELSE <<ReadChunks(0, FileAt(p).content)>>

\* ---- the callbacks -------------------------------------------------------
Line(tag, subject) == [tag |-> tag, subject |-> subject]

Emit(lines) == out' = out \o lines

update_progress(s, t) == progress' = Append(progress, <<s, t>>)

\* gui.py line 162, "current / total": the division raises ZeroDivisionError
ZeroDivisionError(current, total) == total = 0

\* display_results disables the cancel button (gui.py line 172)
done_callback(map) ==
    /\ doneCalls' = Append(doneCalls, [map |-> map, stopSet |-> stop])
    /\ btn_cancel' = "disabled"

\* ---- construction --------------------------------------------------------
Init ==
    /\ impl \in {"memory", "staged"}
    /\ tree \in Trees
    /\ stop = FALSE
    /\ pc = IF impl = "memory" THEN "walk" ELSE "start"
    /\ dirIdx = 1
    /\ all_files = <<>>
    /\ total_files = 0
    /\ scanned = 0
    /\ fileIdx = 1
    /\ files_by_size = <<>>
    /\ db = <<>>
    /\ committed = <<>>
    /\ groups = <<>>
    /\ group_index = 0
    /\ files = <<>>
    /\ hashes = <<>>
    /\ duplicates = <<>>
    /\ out = <<>>
    /\ progress = <<>>
    /\ doneCalls = <<>>
    /\ hash_calls = <<>>
    /\ btn_cancel = "normal"
    /\ stopped_at = <<>>
    /\ thread = 1
    /\ stop_event = 1
    /\ others = {}
    /\ switches = 0

\* the worker's position and the numbers of notifications and of hash_file
\* calls made so far, taken when stop_event.set() runs
Position == [pc |-> pc, notified |-> Len(progress), hashed |-> Len(hash_calls)]

\* the caller sets the stop event (cancel_scan)
SetStop ==
    /\ ~stop
    /\ stop' = TRUE
    /\ btn_cancel' = "disabled"
    /\ stopped_at' = <<Position>>
    /\ UNCHANGED <<thread, stop_event, others, switches>>
    /\ UNCHANGED <<hash_calls, impl, tree, pc, dirIdx, all_files, total_files, scanned,
                   fileIdx, files_by_size, db, committed, groups, group_index, files,
                   hashes, duplicates, out, progress, doneCalls>>

\* the positions at which the worker thread is still running
Running ==
    {"start", "walk", "scan", "scanning", "check1", "group", "hash", "hashing",
     "check2", "deliver"}

Paths(recs) == [i \in 1..Len(recs) |-> recs[i].path]

Cancelled == <<Line("Cancelled", <<>>)>>

\* ---- remove-duplicates.py: find_duplicates.worker ------------------------
\* lines 27-33, one directory of os.walk; a directory that cannot be listed
\* is dropped inside os.walk (onerror is None) and never reaches the loop
MemWalkDir ==
    /\ UNCHANGED <<stopped_at, thread, stop_event, others, switches>>
    /\ impl = "memory" /\ pc = "walk" /\ dirIdx <= Len(tree)
    /\ IF ~tree[dirIdx].readable
       THEN /\ dirIdx' = dirIdx + 1
            /\ UNCHANGED <<pc, all_files, out>>
       ELSE IF stop
       THEN /\ Emit(Cancelled)
            /\ pc' = "cancelled"
            /\ UNCHANGED <<dirIdx, all_files>>
       ELSE /\ all_files' = all_files \o Paths(tree[dirIdx].files)
            /\ dirIdx' = dirIdx + 1
            /\ UNCHANGED <<pc, out>>
    /\ UNCHANGED <<hash_calls, btn_cancel, impl, tree, stop, total_files, scanned, fileIdx,
                   files_by_size, db, committed, groups, group_index, files, hashes,
                   duplicates, progress, doneCalls>>

\* lines 35-37 with "total_files = len(files_by_size)": the dict is still
\* empty when the total is taken
MemWalkEnd_total_of_empty_dict ==
    /\ UNCHANGED <<stopped_at, thread, stop_event, others, switches>>
    /\ impl = "memory" /\ pc = "walk" /\ dirIdx > Len(tree)
    /\ total_files' = 0
    /\ scanned' = 0
    /\ files_by_size' = <<>>
    /\ fileIdx' = 1
    /\ pc' = "scan"
    /\ UNCHANGED <<hash_calls, btn_cancel, impl, tree, stop, dirIdx, all_files, db, committed, groups,
                   group_index, files, hashes, duplicates, out, progress,
                   doneCalls>>

\* lines 35-37, after the walk
MemWalkEnd ==
    /\ UNCHANGED <<stopped_at, thread, stop_event, others, switches>>
    /\ impl = "memory" /\ pc = "walk" /\ dirIdx > Len(tree)
    /\ total_files' = Len(all_files)
    /\ scanned' = 0
    /\ files_by_size' = <<>>
    /\ fileIdx' = 1
    /\ pc' = "scan"
    /\ UNCHANGED <<hash_calls, btn_cancel, impl, tree, stop, dirIdx, all_files, db, committed, groups,
                   group_index, files, hashes, duplicates, out, progress,
                   doneCalls>>

\* lines 39-42, the stop check before a file of Phase 1
MemScanCheck ==
    /\ UNCHANGED <<stopped_at, thread, stop_event, others, switches>>
    /\ impl = "memory" /\ pc = "scan" /\ fileIdx <= Len(all_files)
    /\ IF stop
       THEN /\ Emit(Cancelled)
            /\ pc' = "cancelled"
       ELSE /\ pc' = "scanning"
            /\ UNCHANGED out
    /\ UNCHANGED <<hash_calls, btn_cancel, impl, tree, stop, dirIdx, all_files,
                   total_files, scanned, fileIdx, files_by_size, db, committed,
                   groups, group_index, files, hashes, duplicates, progress,
                   doneCalls>>

\* lines 43-51, one file of Phase 1
MemScanFile ==
    /\ UNCHANGED <<stopped_at, thread, stop_event, others, switches>>
    /\ impl = "memory" /\ pc = "scanning"
    /\ LET filepath == all_files[fileIdx]
           size == getsize(filepath)
       IN  /\ Emit(<<Line("Scanning", filepath)>>
                   \o (IF size = <<>> THEN <<Line("Error", filepath)>> ELSE <<>>))
           /\ files_by_size' =
                  IF size = <<>> THEN files_by_size
                  ELSE SetDefaultAppend(files_by_size, size[1], <<>>, filepath)
           /\ scanned' = scanned + 1
           /\ update_progress(scanned + 1, total_files)
           /\ fileIdx' = fileIdx + 1
           /\ pc' = "scan"
    /\ UNCHANGED <<hash_calls, btn_cancel, impl, tree, stop, dirIdx, all_files, total_files, db, committed,
                   groups, group_index, files, hashes, duplicates, doneCalls>>

\* line 53 with "len(v) > 0": singleton size groups are kept
potential_dupes_keep_singletons(by_size) ==
    SelectSeq(by_size, LAMBDA e : Len(e.val) > 0)

\* line 53
potential_dupes(by_size) == SelectSeq(by_size, LAMBDA e : Len(e.val) > 1)

\* lines 53-54, after Phase 1
MemScanEnd ==
    /\ UNCHANGED <<stopped_at, thread, stop_event, others, switches>>
    /\ impl = "memory" /\ pc = "scan" /\ fileIdx > Len(all_files)
    /\ groups' = potential_dupes(files_by_size)
    /\ group_index' = 0
    /\ duplicates' = <<>>
    /\ pc' = "group"
    /\ UNCHANGED <<hash_calls, btn_cancel, impl, tree, stop, dirIdx, all_files, total_files, scanned,
                   fileIdx, files_by_size, db, committed, files, hashes, out, progress,
                   doneCalls>>

\* lines 56-60, the next candidate group; line 76 when there is none left
MemNextGroup ==
    /\ UNCHANGED <<stopped_at, thread, stop_event, others, switches>>
    /\ impl = "memory" /\ pc = "group"
    /\ IF group_index = Len(groups)
       THEN /\ done_callback(duplicates)
            /\ pc' = "completed"
            /\ UNCHANGED <<group_index, files, hashes, fileIdx, out>>
       ELSE IF stop
       THEN /\ Emit(Cancelled)
            /\ pc' = "cancelled"
            /\ UNCHANGED <<group_index, files, hashes, fileIdx, doneCalls, btn_cancel>>
       ELSE /\ group_index' = group_index + 1
            /\ files' = groups[group_index + 1].val
            /\ hashes' = <<>>
            /\ fileIdx' = 1
            /\ pc' = "hash"
            /\ UNCHANGED <<out, doneCalls, btn_cancel>>
    /\ UNCHANGED <<hash_calls, impl, tree, stop, dirIdx, all_files, total_files, scanned,
                   files_by_size, db, committed, groups, duplicates, progress>>

\* lines 61-64 without the check of line 62: the stop event is polled once
\* per group only
MemHashCheck_once_per_group ==
    /\ UNCHANGED <<stopped_at, thread, stop_event, others, switches>>
    /\ impl = "memory" /\ pc = "hash"
    /\ pc' = "hashing"
    /\ UNCHANGED <<hash_calls, btn_cancel, impl, tree, stop, dirIdx, all_files,
                   total_files, scanned, fileIdx, files_by_size, db, committed,
                   groups, group_index, files, hashes, duplicates, out, progress,
                   doneCalls>>

\* lines 61-64, the stop check before a file of Phase 2
MemHashCheck ==
    /\ UNCHANGED <<stopped_at, thread, stop_event, others, switches>>
    /\ impl = "memory" /\ pc = "hash"
    /\ IF stop
       THEN /\ Emit(Cancelled)
            /\ pc' = "cancelled"
       ELSE /\ pc' = "hashing"
            /\ UNCHANGED out
    /\ UNCHANGED <<hash_calls, btn_cancel, impl, tree, stop, dirIdx, all_files,
                   total_files, scanned, fileIdx, files_by_size, db, committed,
                   groups, group_index, files, hashes, duplicates, progress,
                   doneCalls>>

\* lines 65-74, one file of Phase 2
MemHashFile ==
    /\ UNCHANGED <<stopped_at, thread, stop_event, others, switches>>
    /\ impl = "memory" /\ pc = "hashing"
    /\ LET file == files[fileIdx]
           h == hash_file(file)
       IN  /\ IF h = <<>>
              THEN /\ Emit(<<Line("Error", file)>>)
                   /\ UNCHANGED <<hashes, duplicates>>
              ELSE IF DictHas(hashes, h[1])
              THEN /\ duplicates' = SetDefaultAppend(duplicates, h[1],
                                        <<DictGet(hashes, h[1])>>, file)
                   /\ UNCHANGED <<hashes, out>>
              ELSE /\ hashes' = DictSet(hashes, h[1], file)
                   /\ UNCHANGED <<duplicates, out>>
           /\ hash_calls' = Append(hash_calls, file)
           /\ scanned' = scanned + 1
           /\ update_progress(scanned + 1, total_files)
           /\ fileIdx' = fileIdx + 1
           /\ pc' = IF fileIdx = Len(files) THEN "group" ELSE "hash"
    /\ UNCHANGED <<btn_cancel, impl, tree, stop, dirIdx, all_files, total_files,
                   files_by_size, db, committed, groups, group_index, files, doneCalls>>

\* a callback raises in the worker: nothing catches it, the thread ends
MemRaise ==
    /\ UNCHANGED <<stopped_at, thread, stop_event, others, switches>>
    /\ impl = "memory" /\ pc \in Running
    /\ pc' = "crashed"
    /\ UNCHANGED <<hash_calls, btn_cancel, impl, tree, stop, dirIdx, all_files, total_files, scanned,
                   fileIdx, files_by_size, db, committed, groups, group_index, files,
                   hashes, duplicates, out, progress, doneCalls>>

\* line 76, done_callback raises after it was entered (display_results may
\* or may not have reached its first statement, which disables the button)
MemDoneRaise ==
    /\ UNCHANGED <<stopped_at, thread, stop_event, others, switches>>
    /\ impl = "memory" /\ pc = "group" /\ group_index = Len(groups)
    /\ doneCalls' = Append(doneCalls, [map |-> duplicates, stopSet |-> stop])
    /\ btn_cancel' \in {btn_cancel, "disabled"}
    /\ pc' = "crashed"
    /\ UNCHANGED <<hash_calls, impl, tree, stop, dirIdx, all_files, total_files, scanned,
                   fileIdx, files_by_size, db, committed, groups, group_index, files,
                   hashes, duplicates, out, progress>>

\* ---- duplicate_finder.py: the table files ---------------------------------
NULL == <<>>

\* INSERT INTO files (path, size) VALUES (?, ?)
Insert(rows, path, size) ==
    Append(rows, [path |-> path, size |-> size, hash |-> NULL])

\* UPDATE files SET hash = ? WHERE path = ?
UpdateHash(rows, file_hash, path) ==
    [i \in 1..Len(rows) |->
        IF rows[i].path = path THEN [rows[i] EXCEPT !.hash = <<file_hash>>]
        ELSE rows[i]]

\* the numbers of a set in ascending order (the order of the index scan)
RECURSIVE Ascending(_)
Ascending(S) ==
    IF S = {} THEN <<>>
    ELSE LET m == CHOOSE x \in S : \A y \in S : x <= y
         IN  <<m>> \o Ascending(S \ {m})

\* SELECT size FROM files GROUP BY size HAVING COUNT(*) > 1
SizeGroups(rows) ==
    Ascending({z \in {rows[i].size : i \in 1..Len(rows)} :
                 Cardinality({i \in 1..Len(rows) : rows[i].size = z}) > 1})

\* SELECT path FROM files WHERE size >= ?
PathsOfSize_at_least(rows, size) ==
    Paths(SelectSeq(rows, LAMBDA r : r.size >= size))

\* SELECT path FROM files WHERE size = ?
PathsOfSize(rows, size) ==
    Paths(SelectSeq(rows, LAMBDA r : r.size = size))

\* GROUP_CONCAT(path): the paths joined by ","
RECURSIVE GroupConcat(_)
GroupConcat(paths) ==
    IF Len(paths) = 1 THEN paths[1]
    ELSE paths[1] \o <<Comma>> \o GroupConcat(Tail(paths))

\* paths_str.split(",")
RECURSIVE Split(_)
Split(str) ==
    IF \E i \in 1..Len(str) : str[i] = Comma
    THEN LET c == CHOOSE i \in 1..Len(str) :
                      /\ str[i] = Comma
                      /\ \A j \in 1..(i - 1) : str[j] # Comma
         IN  <<SubSeq(str, 1, c - 1)>> \o Split(SubSeq(str, c + 1, Len(str)))
    ELSE <<str>>

\* lines 165-182 without "HAVING COUNT(*) > 1": every digest is a group
find_duplicates_from_db_no_having(rows) ==
    LET hashed == SelectSeq(rows, LAMBDA r : r.hash # NULL)
        keys   == Ascending({hashed[i].hash[1] : i \in 1..Len(hashed)})
    IN  [g \in 1..Len(keys) |->
            [key |-> keys[g],
             val |-> Split(GroupConcat(
                        Paths(SelectSeq(hashed, LAMBDA r : r.hash[1] = keys[g]))))]]

\* lines 165-182
find_duplicates_from_db(rows) ==
    LET hashed == SelectSeq(rows, LAMBDA r : r.hash # NULL)
        keys   == Ascending({h \in {hashed[i].hash[1] : i \in 1..Len(hashed)} :
                    Cardinality({i \in 1..Len(hashed) : hashed[i].hash[1] = h}) > 1})
    IN  [g \in 1..Len(keys) |->
            [key |-> keys[g],
             val |-> Split(GroupConcat(
                        Paths(SelectSeq(hashed, LAMBDA r : r.hash[1] = keys[g]))))]]

\* ---- duplicate_finder.py: _run_find_duplicates ---------------------------
\* line 31 with a database file instead of ":memory:": the rows of the
\* previous session are still there
connect_database_file(rows) == rows

\* line 31, sqlite3.connect(":memory:"): a new, empty database
connect(rows) == <<>>

\* lines 31-32 and 77-79
StagedStart ==
    /\ UNCHANGED <<stopped_at, thread, stop_event, others, switches>>
    /\ impl = "staged" /\ pc = "start"
    /\ db' = connect(db)
    /\ committed' = connect(committed)
    /\ Emit(<<Line("Scanning", <<>>)>>)
    /\ all_files' = <<>>
    /\ pc' = "walk"
    /\ UNCHANGED <<hash_calls, btn_cancel, impl, tree, stop, dirIdx,
                   total_files, scanned, fileIdx, files_by_size, groups,
                   group_index, files, hashes, duplicates, progress, doneCalls>>

\* lines 80-85, one directory of os.walk; "return 0" goes to line 36
StagedWalkDir ==
    /\ UNCHANGED <<stopped_at, thread, stop_event, others, switches>>
    /\ impl = "staged" /\ pc = "walk" /\ dirIdx <= Len(tree)
    /\ IF ~tree[dirIdx].readable
       THEN /\ dirIdx' = dirIdx + 1
            /\ UNCHANGED <<pc, all_files, total_files>>
       ELSE IF stop
       THEN /\ total_files' = 0
            /\ pc' = "check1"
            /\ UNCHANGED <<dirIdx, all_files>>
       ELSE /\ all_files' = all_files \o Paths(tree[dirIdx].files)
            /\ dirIdx' = dirIdx + 1
            /\ UNCHANGED <<pc, total_files>>
    /\ UNCHANGED <<hash_calls, btn_cancel, impl, tree, stop, scanned, fileIdx, files_by_size, db,
                   committed, groups, group_index, files, hashes, duplicates,
                   out, progress, doneCalls>>

\* lines 87-89
StagedWalkEnd ==
    /\ UNCHANGED <<stopped_at, thread, stop_event, others, switches>>
    /\ impl = "staged" /\ pc = "walk" /\ dirIdx > Len(tree)
    /\ total_files' = Len(all_files)
    /\ scanned' = 0
    /\ fileIdx' = 1
    /\ pc' = "scan"
    /\ UNCHANGED <<hash_calls, btn_cancel, impl, tree, stop, dirIdx, all_files, files_by_size, db,
                   committed, groups, group_index, files, hashes, duplicates,
                   out, progress, doneCalls>>

\* lines 91-93, the stop check before a file of _scan_files; "return
\* scanned" goes to line 36
StagedScanCheck ==
    /\ UNCHANGED <<stopped_at, thread, stop_event, others, switches>>
    /\ impl = "staged" /\ pc = "scan" /\ fileIdx <= Len(all_files)
    /\ IF stop
       THEN /\ total_files' = scanned
            /\ pc' = "check1"
       ELSE /\ pc' = "scanning"
            /\ UNCHANGED total_files
    /\ UNCHANGED <<hash_calls, btn_cancel, impl, tree, stop, dirIdx, all_files,
                   scanned, fileIdx, files_by_size, db, committed, groups,
                   group_index, files, hashes, duplicates, out, progress,
                   doneCalls>>

\* lines 94-104, one file of _scan_files
StagedScanFile ==
    /\ UNCHANGED <<stopped_at, thread, stop_event, others, switches>>
    /\ impl = "staged" /\ pc = "scanning"
    /\ LET filepath == all_files[fileIdx]
           size == getsize(filepath)
       IN  /\ IF size = <<>>
              THEN /\ Emit(<<Line("Error", filepath)>>)
                   /\ UNCHANGED db
              ELSE /\ db' = Insert(db, filepath, size[1])
                   /\ UNCHANGED out
           /\ scanned' = scanned + 1
           /\ committed' = IF (scanned + 1) % CommitInterval = 0
                           THEN db' ELSE committed
           /\ update_progress(scanned + 1, total_files)
           /\ fileIdx' = fileIdx + 1
           /\ pc' = "scan"
           /\ UNCHANGED total_files
    /\ UNCHANGED <<hash_calls, btn_cancel, impl, tree, stop, dirIdx, all_files, files_by_size, groups,
                   group_index, files, hashes, duplicates, doneCalls>>

\* lines 106-108
StagedScanEnd ==
    /\ UNCHANGED <<stopped_at, thread, stop_event, others, switches>>
    /\ impl = "staged" /\ pc = "scan" /\ fileIdx > Len(all_files)
    /\ committed' = db
    /\ Emit(<<Line("Scanning", <<>>)>>)
    /\ pc' = "check1"
    /\ UNCHANGED <<hash_calls, btn_cancel, impl, tree, stop, dirIdx, all_files, total_files, scanned,
                   fileIdx, files_by_size, db, groups, group_index, files,
                   hashes, duplicates, progress, doneCalls>>

\* lines 36-38, then lines 118-131 of _hash_files
StagedCheck1 ==
    /\ UNCHANGED <<stopped_at, thread, stop_event, others, switches>>
    /\ impl = "staged" /\ pc = "check1"
    /\ IF stop
       THEN /\ Emit(Cancelled)
            /\ pc' = "cancelled"
            /\ UNCHANGED <<groups, group_index, scanned>>
       ELSE /\ Emit(<<Line("Hashing", <<>>)>>)
            /\ groups' = SizeGroups(db)
            /\ group_index' = 0
            /\ scanned' = 0
            /\ pc' = "group"
    /\ UNCHANGED <<hash_calls, btn_cancel, impl, tree, stop, dirIdx, all_files, total_files, fileIdx,
                   files_by_size, db, committed, files, hashes, duplicates,
                   progress, doneCalls>>

\* lines 133-143, the next size group; lines 161-162 when there is none left
StagedNextGroup ==
    /\ UNCHANGED <<stopped_at, thread, stop_event, others, switches>>
    /\ impl = "staged" /\ pc = "group"
    /\ IF group_index = Len(groups)
       THEN /\ committed' = db
            /\ Emit(<<Line("Hashing", <<>>)>>)
            /\ pc' = "check2"
            /\ UNCHANGED <<group_index, files, fileIdx>>
       ELSE IF stop
       THEN /\ pc' = "check2"
            /\ UNCHANGED <<group_index, files, fileIdx, out, committed>>
       ELSE /\ group_index' = group_index + 1
            /\ Emit(<<Line("Hashing", <<>>)>>)
            /\ files' = PathsOfSize(db, groups[group_index + 1])
            /\ fileIdx' = 1
            /\ pc' = "hash"
            /\ UNCHANGED committed
    /\ UNCHANGED <<hash_calls, btn_cancel, impl, tree, stop, dirIdx, all_files, total_files, scanned,
                   files_by_size, db, groups, hashes, duplicates, progress,
                   doneCalls>>

\* lines 145-147, the stop check before a file of _hash_files
StagedHashCheck ==
    /\ UNCHANGED <<stopped_at, thread, stop_event, others, switches>>
    /\ impl = "staged" /\ pc = "hash"
    /\ pc' = IF stop THEN "check2" ELSE "hashing"
    /\ UNCHANGED <<hash_calls, btn_cancel, impl, tree, stop, dirIdx, all_files,
                   total_files, scanned, fileIdx, files_by_size, db, committed,
                   groups, group_index, files, hashes, duplicates, out, progress,
                   doneCalls>>

\* lines 148-159, one file of _hash_files
StagedHashFile ==
    /\ UNCHANGED <<stopped_at, thread, stop_event, others, switches>>
    /\ impl = "staged" /\ pc = "hashing"
    /\ LET file_path == files[fileIdx]
           file_hash == hash_file(file_path)
       IN  /\ IF file_hash = <<>>
              THEN /\ Emit(<<Line("Hashing", file_path),
                             Line("Error", file_path)>>)
                   /\ UNCHANGED db
              ELSE /\ Emit(<<Line("Hashing", file_path)>>)
                   /\ db' = UpdateHash(db, file_hash[1], file_path)
           /\ hash_calls' = Append(hash_calls, file_path)
           /\ scanned' = scanned + 1
           /\ committed' = IF (scanned + 1) % CommitInterval = 0
                           THEN db' ELSE committed
           /\ update_progress(scanned + 1, total_files)
           /\ fileIdx' = fileIdx + 1
           /\ pc' = IF fileIdx = Len(files) THEN "group" ELSE "hash"
    /\ UNCHANGED <<btn_cancel, impl, tree, stop, dirIdx, all_files, total_files,
                   files_by_size, groups, group_index, files, hashes,
                   duplicates, doneCalls>>

\* lines 41-43
StagedCheck2 ==
    /\ UNCHANGED <<stopped_at, thread, stop_event, others, switches>>
    /\ impl = "staged" /\ pc = "check2"
    /\ IF stop
       THEN /\ Emit(Cancelled)
            /\ pc' = "cancelled"
       ELSE /\ pc' = "deliver"
            /\ UNCHANGED out
    /\ UNCHANGED <<hash_calls, btn_cancel, impl, tree, stop, dirIdx, all_files, total_files, scanned,
                   fileIdx, files_by_size, db, committed, groups, group_index,
                   files, hashes, duplicates, progress, doneCalls>>

\* lines 45-46
StagedDeliver ==
    /\ UNCHANGED <<stopped_at, thread, stop_event, others, switches>>
    /\ impl = "staged" /\ pc = "deliver"
    /\ done_callback(find_duplicates_from_db(db))
    /\ pc' = "completed"
    /\ UNCHANGED <<hash_calls, impl, tree, stop, dirIdx, all_files, total_files, scanned,
                   fileIdx, files_by_size, db, committed, groups, group_index,
                   files, hashes, duplicates, out, progress>>

\* a callback or a statement raises inside the try block: lines 48-50
StagedRaise ==
    /\ UNCHANGED <<stopped_at, thread, stop_event, others, switches>>
    /\ impl = "staged" /\ pc \in Running
    /\ Emit(<<Line("Error", <<>>)>>)
    /\ done_callback(<<>>)
    /\ pc' = "failed"
    /\ UNCHANGED <<hash_calls, impl, tree, stop, dirIdx, all_files, total_files, scanned,
                   fileIdx, files_by_size, db, committed, groups, group_index,
                   files, hashes, duplicates, progress>>

\* line 46, done_callback raises after it was entered: lines 48-50
StagedDoneRaise ==
    /\ UNCHANGED <<stopped_at, thread, stop_event, others, switches>>
    /\ impl = "staged" /\ pc = "deliver"
    /\ Emit(<<Line("Error", <<>>)>>)
    /\ doneCalls' = doneCalls
           \o <<[map |-> find_duplicates_from_db(db), stopSet |-> stop],
                [map |-> <<>>, stopSet |-> stop]>>
    /\ btn_cancel' = "disabled"
    /\ pc' = "failed"
    /\ UNCHANGED <<hash_calls, impl, tree, stop, dirIdx, all_files, total_files, scanned,
                   fileIdx, files_by_size, db, committed, groups, group_index,
                   files, hashes, duplicates, progress>>

StagedWorker ==
    \/ StagedStart
    \/ StagedWalkDir
    \/ StagedWalkEnd
    \/ StagedScanCheck
    \/ StagedScanFile
    \/ StagedScanEnd
    \/ StagedCheck1
    \/ StagedNextGroup
    \/ StagedHashCheck
    \/ StagedHashFile
    \/ StagedCheck2
    \/ StagedDeliver
    \/ StagedRaise
    \/ StagedDoneRaise

MemWorker ==
    \/ MemWalkDir
    \/ MemWalkEnd
    \/ MemScanCheck
    \/ MemScanFile
    \/ MemScanEnd
    \/ MemNextGroup
    \/ MemHashCheck
    \/ MemHashFile
    \/ MemRaise
    \/ MemDoneRaise

Next ==
    \/ SetStop
    \/ MemWorker
    \/ StagedWorker


Spec == Init /\ [][Next]_vars

\* ---- a second session on the same tree -----------------------------------
\* select_folder after a scan that completed without cancellation: a new
\* stop event, the button enabled, and a new worker thread of program w
\* (gui.py lines 104-119, remove-duplicates.py lines 169-184 and 26)
StartSession(w) ==
    /\ pc = "completed" /\ ~stop /\ Len(doneCalls) < MaxRuns
    /\ impl' = w
    /\ stop' = FALSE
    /\ btn_cancel' = "normal"
    /\ out' = <<>>
    /\ progress' = <<>>
    /\ hash_calls' = <<>>
    /\ stopped_at' = <<>>
    /\ thread' = thread + 1
    /\ stop_event' = thread + 1
    /\ UNCHANGED <<others, switches>>
    /\ pc' = IF w = "memory" THEN "walk" ELSE "start"
    /\ dirIdx' = 1
    /\ all_files' = <<>>
    /\ total_files' = 0
    /\ scanned' = 0
    /\ fileIdx' = 1
    /\ groups' = <<>>
    /\ group_index' = 0
    /\ files' = <<>>
    /\ UNCHANGED <<tree, doneCalls, db, committed, files_by_size, hashes,
                   duplicates>>

\* the same program scans the tree again
select_folder == StartSession(impl)

\* the other program scans the tree
select_folder_other ==
    StartSession(IF impl = "memory" THEN "staged" ELSE "memory")

NextRerun ==
    \/ Next
    \/ select_folder

SpecRerun == Init /\ [][NextRerun]_vars

NextOther ==
    \/ Next
    \/ select_folder_other

SpecOther == Init /\ [][NextOther]_vars

\* ---- the GUI with several worker threads ---------------------------------
\* the local state of the worker thread that is being stepped
Worker ==
    [thread |-> thread, stop |-> stop, stopped_at |-> stopped_at, pc |-> pc,
     dirIdx |-> dirIdx, all_files |-> all_files, total_files |-> total_files,
     scanned |-> scanned, fileIdx |-> fileIdx, files_by_size |-> files_by_size,
     db |-> db, committed |-> committed, groups |-> groups,
     group_index |-> group_index, files |-> files, hashes |-> hashes,
     duplicates |-> duplicates]

\* the worker being stepped joins the other threads unless it has ended
Suspended == others \cup (IF pc \in Running THEN {Worker} ELSE {})

\* select_folder at any moment, also while a scan is running: the log is
\* cleared, self.stop_event is replaced by a new event, the button is
\* enabled and a new worker thread starts; the threads started before keep
\* the event they were given
gui_select_folder ==
    /\ stop_event < MaxRuns
    /\ others' = Suspended
    /\ stop_event' = stop_event + 1
    /\ thread' = stop_event + 1
    /\ stop' = FALSE
    /\ stopped_at' = <<>>
    /\ btn_cancel' = "normal"
    /\ out' = <<>>
    /\ progress' = <<>>
    /\ hash_calls' = <<>>
    /\ pc' = IF impl = "memory" THEN "walk" ELSE "start"
    /\ dirIdx' = 1
    /\ all_files' = <<>>
    /\ total_files' = 0
    /\ scanned' = 0
    /\ fileIdx' = 1
    /\ files_by_size' = <<>>
    /\ db' = <<>>
    /\ committed' = <<>>
    /\ groups' = <<>>
    /\ group_index' = 0
    /\ files' = <<>>
    /\ hashes' = <<>>
    /\ duplicates' = <<>>
    /\ UNCHANGED <<impl, tree, doneCalls, switches>>

\* cancel_scan, invoked by the button while it is enabled: the event of
\* self.stop_event is set, and only that one
gui_cancel_scan ==
    /\ btn_cancel = "normal"
    /\ btn_cancel' = "disabled"
    /\ IF thread = stop_event
       THEN /\ stop' = TRUE
            /\ stopped_at' = <<Position>>
            /\ UNCHANGED others
       ELSE /\ others' =
                   {IF w.thread = stop_event
                    THEN [w EXCEPT !.stop = TRUE,
                                   !.stopped_at =
                                       <<[pc |-> w.pc, notified |-> Len(progress),
                                          hashed |-> Len(hash_calls)]>>]
                    ELSE w : w \in others}
            /\ UNCHANGED <<stop, stopped_at>>
    /\ UNCHANGED <<impl, tree, pc, dirIdx, all_files, total_files, scanned,
                   fileIdx, files_by_size, db, committed, groups, group_index,
                   files, hashes, duplicates, out, progress, doneCalls,
                   hash_calls, thread, stop_event, switches>>

\* the scheduler goes on with another worker thread
switch_thread ==
    \E w \in others :
        /\ switches < MaxSwitches
        /\ switches' = switches + 1
        /\ others' = Suspended \ {w}
        /\ thread' = w.thread
        /\ stop' = w.stop
        /\ stopped_at' = w.stopped_at
        /\ pc' = w.pc
        /\ dirIdx' = w.dirIdx
        /\ all_files' = w.all_files
        /\ total_files' = w.total_files
        /\ scanned' = w.scanned
        /\ fileIdx' = w.fileIdx
        /\ files_by_size' = w.files_by_size
        /\ db' = w.db
        /\ committed' = w.committed
        /\ groups' = w.groups
        /\ group_index' = w.group_index
        /\ files' = w.files
        /\ hashes' = w.hashes
        /\ duplicates' = w.duplicates
        /\ UNCHANGED <<impl, tree, out, progress, doneCalls, hash_calls,
                       btn_cancel, stop_event>>

NextGui ==
    \/ gui_select_folder
    \/ gui_cancel_scan
    \/ switch_thread
    \/ MemWorker
    \/ StagedWorker

\* the first select_folder, on a folder of at most MaxGuiFiles files in
\* which every directory can be listed and every file can be read
InitGui ==
    /\ Init
    /\ Len(TreeFiles(tree)) <= MaxGuiFiles
    /\ \A d \in 1..Len(tree) : tree[d].readable
    /\ \A f \in Range(TreeFiles(tree)) : f.fault = "none"

SpecGui == InitGui /\ [][NextGui]_vars

\* ---- what a session shows to its caller ----------------------------------
Last(s) == s[Len(s)]

AllFiles == Range(TreeFiles(tree))

\* the map of the latest done_callback call
Delivered == Last(doneCalls).map

\* the paths listed in the duplicate sets of a map
Listed(map) == UNION {Range(map[i].val) : i \in 1..Len(map)}

InSameSet(map, p, q) ==
    \E i \in 1..Len(map) : p \in Range(map[i].val) /\ q \in Range(map[i].val)

Lines(tag) == {i \in 1..Len(out) : out[i].tag = tag}

ErrorLineFor(p) == \E i \in Lines("Error") : out[i].subject = p

\* C1: cancellation requested at any point before the result is delivered
\* yields no done_callback call: a session that completed had no stop event
\* set when done_callback was entered.
C1_CancelYieldsNoMap ==
    pc = "completed" => \A i \in 1..Len(doneCalls) : ~doneCalls[i].stopSet

\* C2: after a completed scan, any two files with identical content (whose
\* size query and hashing did not fail) are in the same delivered duplicate set.
C2_IdenticalFilesTogether ==
    pc = "completed" =>
        \A a, b \in AllFiles :
            (/\ a.path # b.path
             /\ a.content = b.content
             /\ a.fault = "none" /\ b.fault = "none")
            => InSameSet(Delivered, a.path, b.path)

\* C3: every progress notification has scanned <= total.
C3_ScannedAtMostTotal ==
    \A i \in 1..Len(progress) : progress[i][1] <= progress[i][2]

\* C4: the scanned values of the progress notifications of a session never
\* decrease, also from Phase 1 to Phase 2.
C4_ScannedNonDecreasing ==
    \A i, j \in 1..Len(progress) : i < j => progress[i][1] <= progress[j][1]

\* C5: when the session completed, its last progress notification has
\* scanned = total.
C5_CompletedAtTotal ==
    (pc = "completed" /\ progress # <<>>)
        => Last(progress)[1] = Last(progress)[2]

\* C6: a session that ended reported its outcome exactly once: one
\* done_callback call or one "[Cancelled]" line, never both, never neither,
\* never twice, also when an unexpected error was raised.
C6_OneTerminalReport ==
    pc \notin Running
        => Len(doneCalls) + Cardinality(Lines("Cancelled")) = 1

\* C7: an unexpected error in the worker ends the session with one
\* done_callback call that carries the empty map, in both workers.
C7_UnexpectedDeliversEmpty ==
    pc \in {"failed", "crashed"}
        => (doneCalls # <<>> /\ Delivered = <<>>)

\* C8: when the tree has a directory that cannot be listed, a completed scan
\* has emitted an "[Error]" line for it (a line that is not about a file).
C8_ErrorLineForDirectory ==
    (pc = "completed" /\ \E d \in 1..Len(tree) : ~tree[d].readable)
        => \E i \in Lines("Error") :
               out[i].subject \notin {f.path : f \in AllFiles}

\* C9: a file whose hashing failed has an "[Error]" line and is listed in no
\* duplicate set of the map a completed scan delivers.
C9_HashFailureExcluded ==
    pc = "completed" =>
        \A f \in AllFiles :
            (f.fault = "hash" /\ ErrorLineFor(f.path))
            => f.path \notin Listed(Delivered)

\* C10: a file whose size query failed has an "[Error]" line, was counted
\* once in Phase 1 and is listed in no duplicate set of the map a completed
\* scan delivers.
C10_SizeFailureExcluded ==
    pc = "completed" =>
        \A f \in AllFiles :
            f.fault = "size"
            => (/\ ErrorLineFor(f.path)
                /\ f.path \notin Listed(Delivered))
\* ---- the tree as the claims see it ---------------------------------------
\* the files whose size query succeeds
Sized == {f \in AllFiles : f.fault # "size"}

\* the files of the candidate groups: the size is shared by another file
Candidates ==
    {f \in Sized : \E g \in Sized :
        g.path # f.path /\ Len(g.content) = Len(f.content)}

\* the size of the file is unique in the tree
UniqueSize(f) ==
    \A g \in AllFiles : g.path # f.path => Len(g.content) # Len(f.content)

\* C11: on a completed scan the single progress counter runs through both
\* phases: there are N + H notifications (N enumerated files, H files in
\* candidate groups), the i-th carries scanned = i, so the last one carries
\* scanned = N + H.
C11_DualCounting ==
    pc = "completed" =>
        /\ Len(progress) = Len(all_files) + Cardinality(Candidates)
        /\ \A i \in 1..Len(progress) : progress[i][1] = i

\* C12: a file whose size is unique in the tree is never passed to the
\* hasher, its record never gets a digest, and on a completed scan the
\* notifications are one per enumerated file plus one per hashed file, so the
\* file caused exactly one.
C12_UniqueSizeNeverHashed ==
    \A f \in AllFiles :
        UniqueSize(f) =>
            /\ f.path \notin Range(hash_calls)
            /\ \A i \in 1..Len(db) : db[i].path = f.path => db[i].hash = NULL
            /\ \A i \in 1..Len(hashes) : hashes[i].val # f.path
            /\ pc = "completed" =>
                   /\ Len(progress) = Len(all_files) + Len(hash_calls)
                   /\ Cardinality({i \in 1..Len(all_files) : all_files[i] = f.path}) = 1

\* C12 witness: a completed scan that hashed a candidate group and left a
\* file of unique size alone.
C12_Witness ==
    /\ pc = "completed"
    /\ hash_calls # <<>>
    /\ \E f \in AllFiles : UniqueSize(f) /\ f.fault = "none"
\* the files that got a digest: hash_file was called on them and returned
Digested == {f \in AllFiles : f.fault = "none" /\ f.path \in Range(hash_calls)}

\* the places of a map at which a path is listed
Places(map, p) ==
    UNION {{<<i, j>> : j \in {k \in 1..Len(map[i].val) : map[i].val[k] = p}} :
              i \in 1..Len(map)}

\* C13: every delivered duplicate set lists the paths that have its digest
\* in the order of their enumeration, the first one enumerated (the anchor)
\* at position 0.
C13_AnchorFirst ==
    pc = "completed" =>
        \A i \in 1..Len(Delivered) :
            Delivered[i].val =
                SelectSeq(all_files,
                          LAMBDA p : /\ getsize(p) # <<>>
                                     /\ hash_file(p) = <<Delivered[i].key>>)

\* C14: no map handed to done_callback has a digest with fewer than two
\* member paths.
C14_SetsHaveTwoMembers ==
    \A c \in 1..Len(doneCalls) :
        \A i \in 1..Len(doneCalls[c].map) : Len(doneCalls[c].map[i].val) >= 2

\* C14 witness: a completed scan delivered a map with a duplicate set.
C14_Witness ==
    pc = "completed" /\ Delivered # <<>>

\* C15: after a completed scan a file that got a digest is listed exactly
\* once, in one set, when another file that got a digest shares it, and is
\* listed nowhere otherwise.
C15_ExactlyOneSet ==
    pc = "completed" =>
        \A f \in Digested :
            Cardinality(Places(Delivered, f.path)) =
                IF \E g \in Digested : g.path # f.path /\ g.content = f.content
                THEN 1 ELSE 0
\* C16: in the output of a session every "[Scanning]" line comes before
\* every "[Hashing]" line, both come before the "[Cancelled]" line, nothing
\* runs on after the result was delivered, and a session that hashes files
\* has announced it with a "[Hashing]" line.
C16_TagOrder ==
    /\ \A i \in Lines("Scanning") : \A j \in Lines("Hashing") : i < j
    /\ \A c \in Lines("Cancelled") :
           \A i \in Lines("Scanning") \cup Lines("Hashing") : i < c
    /\ doneCalls # <<>> => pc \notin Running
    /\ hash_calls # <<>> => Lines("Hashing") # {}
\* C17: once the session has ended (Completed, Cancelled or Failed) the
\* cancel button is disabled.
C17_CancelButtonDisabled ==
    pc \notin Running => btn_cancel = "disabled"
\* a map as a set of digest -> set of paths
AsSets(map) ==
    {[key |-> map[i].key, val |-> Range(map[i].val)] : i \in 1..Len(map)}

\* C18: when the same program has scanned the unchanged tree again and
\* completed, the maps of all its runs are equal as sets of digest -> set of
\* paths.
C18_RerunSameMap ==
    pc = "completed" =>
        \A i, j \in 1..Len(doneCalls) :
            AsSets(doneCalls[i].map) = AsSets(doneCalls[j].map)

\* C18 witness: a second run has completed and the first run had found a
\* duplicate set.
C18_Witness ==
    /\ pc = "completed"
    /\ Len(doneCalls) = 2
    /\ doneCalls[1].map # <<>>

\* C20: when the other worker has scanned the same tree and completed, its
\* map equals the map of the first worker as a set of digest -> set of paths.
C20_WorkersAgree ==
    (pc = "completed" /\ Len(doneCalls) >= 2)
        => AsSets(Delivered) = AsSets(doneCalls[Len(doneCalls) - 1].map)
\* C19: the candidate group being hashed is exactly the set of the files of
\* one size (no file of another size is in it, no file of that size with a
\* readable size is missing), and a completed scan has taken every file
\* whose size is shared through such a group.
C19_SizeGroupsExact ==
    /\ pc = "hash" =>
           \E f \in Sized :
               Range(files) =
                   {g.path : g \in {h \in Sized : Len(h.content) = Len(f.content)}}
    /\ pc = "completed" =>
           \A f \in Candidates : f.path \in Range(hash_calls)

\* C19 witness: a candidate group is being hashed while the tree has a file
\* of another size, which is not in the group.
C19_Witness ==
    /\ pc = "hash"
    /\ Len(files) >= 2
    /\ \E f \in Sized : f.path \notin Range(files)
\* ---- cancellation latency ------------------------------------------------
\* the positions of Phase 1 (enumeration and size queries) and of Phase 2
Phases == {"walk", "scan", "scanning", "group", "hash", "hashing"}

\* the positions inside the processing of one file
InFile == {"scanning", "hashing"}

\* C21: when the stop event was set while the worker was in Phase 1 or in
\* Phase 2, the worker makes at most one further progress notification and
\* at most one further hash_file call, and only for the file it was
\* processing when the event was set; a worker that was at a loop head makes
\* none.
C21_CancelLatencyOneFile ==
    \A i \in 1..Len(stopped_at) :
        stopped_at[i].pc \in Phases =>
            /\ Len(progress) - stopped_at[i].notified <= 1
            /\ Len(hash_calls) - stopped_at[i].hashed <= 1
            /\ stopped_at[i].pc \notin InFile =>
                   /\ Len(progress) = stopped_at[i].notified
                   /\ Len(hash_calls) = stopped_at[i].hashed

\* C21 witness: the stop event was set while a file was being hashed, the
\* worker finished that file and notified once more, and the session has
\* ended as cancelled.
C21_Witness ==
    /\ pc = "cancelled"
    /\ stopped_at # <<>>
    /\ stopped_at[1].pc = "hashing"
    /\ Len(progress) = stopped_at[1].notified + 1
    /\ Len(hash_calls) = stopped_at[1].hashed + 1
\* C22: every progress notification carries scanned >= 1 and total >= 1, in
\* both workers and in both phases, so the percentage computed by the GUI
\* never divides by zero.
C22_NotificationsPositive ==
    \A i \in 1..Len(progress) :
        /\ progress[i][1] >= 1
        /\ progress[i][2] >= 1
        /\ ~ZeroDivisionError(progress[i][1], progress[i][2])

\* C22 witness: the staged worker, whose Phase 2 total is the value returned
\* by _scan_files, has notified in Phase 2.
C22_Witness ==
    /\ impl = "staged"
    /\ hash_calls # <<>>
    /\ Len(progress) > Len(all_files)
\* C23: every worker thread that is running polls the stop event that
\* cancel_scan sets, the one of self.stop_event, whatever sequence of
\* select_folder and cancel_scan actions came before.
C23_RunningWorkersCancellable ==
    /\ pc \in Running => thread = stop_event
    /\ \A w \in others : w.pc \in Running => w.thread = stop_event
====
